---- MODULE Spec2Model ----
(***************************************************************************)
(* A model of Mutiny's event dispatch engine (EventHandler) and of its     *)
(* gateway client (GatewayClient.start / connect / poll_loop / close).     *)
(*                                                                         *)
(* The dispatch engine is synchronous Python: add_waiter, add_listener and *)
(* dispatch contain no await, so each is one atomic action.  The listener  *)
(* tasks created by dispatch and the gateway coroutines are asyncio        *)
(* coroutines: each of them is a process that moves from one suspension    *)
(* point (await) to the next in one action.                                *)
(***************************************************************************)
EXTENDS Integers, Sequences, FiniteSets, TLC

\* ------------------------------------------------------------------ bounds
MaxWaiters == 2      \* add_waiter calls in one run
MaxListeners == 3    \* add_listener calls in one run
MaxEvents == 2       \* dispatch calls in one run
MaxConnects == 3     \* connect() calls in one run of start()
MaxFrames == 2       \* frames received in one run of start()
MaxSent == 3         \* frames sent on one transport

\* ------------------------------------------------------------------ types
\* The event hierarchy: Derived extends Base extends the root Event.
Classes == {"Event", "Base", "Derived"}

\* The type keys waiters are registered under: the root and the leaf.
WaiterKeys == {"Event", "Derived"}

\* The classes events are instantiated from.
EventClasses == {"Base", "Derived"}

\* cls.__bases__[0]; the root's base is object.
Parent(cls) ==
    CASE cls = "Derived" -> "Base"
      [] cls = "Base" -> "Event"
      [] cls = "Event" -> "object"

\* event.__class__.__mro__ : the class, its ancestors, object last.
RECURSIVE Mro(_)
Mro(cls) == IF cls = "object" THEN <<"object">> ELSE <<cls>> \o Mro(Parent(cls))

Reversed(s) == [i \in 1..Len(s) |-> s[Len(s) + 1 - i]]

\* Mutant of DispatchOrder: the MRO as it stands, leaf first (object dropped).
DispatchOrderLeafFirst(cls) == SubSeq(Mro(cls), 1, Len(Mro(cls)) - 1)

\* itertools.islice(reversed(event.__class__.__mro__), 1, None)
DispatchOrder(cls) == Tail(Reversed(Mro(cls)))

\* The payloads an event can carry, as far as a predicate can tell them apart.
Tags == {"A", "B"}

\* The predicates handed to add_waiter: None, one that is true exactly for
\* the events tagged B, one that raises an Exception, and one that raises
\* StopIteration (as `next(it)` does on an exhausted iterator).
Checks == {"None", "isB", "raises", "raisesStop"}

\* The predicates whose exception, if any, a future accepts.
PlainChecks == {"None", "isB", "raises"}

\* The predicates that call add_waiter and return False: for the bucket of
\* their own waiter with no predicate, for another bucket with no predicate,
\* and for the bucket of their own waiter with themselves as the predicate.
ReentrantChecks == {"addsSame", "addsOther", "addsSelf"}

\* The key a predicate of the second kind registers under.
OtherKey(key) == IF key = "Event" THEN "Derived" ELSE "Event"

\* No event: the value of a future that holds none.
NoEvent == [id |-> 0, cls |-> "none", tag |-> "none"]

\* check(event): what calling the predicate does.
CheckOutcome(check, event) ==
    CASE check = "isB" -> IF event.tag = "B" THEN "true" ELSE "false"
      [] check \in {"raises", "raisesStop"} -> "raise"
      [] check \in ReentrantChecks -> "false"
      [] OTHER -> "true"

\* The exception a raising predicate raises.
Raised(check) == IF check = "raisesStop" THEN "StopIteration" ELSE "Exception"

VARIABLES
    listeners,   \* EventHandler.listeners: type key -> list of listener ids
    waiters,     \* EventHandler.waiters: type key -> list of (future, check)
    futures,     \* the futures made by add_waiter, by id
    nEvents,     \* the number of dispatch calls so far
    lastEvent,   \* the event of the last dispatch call
    tasks,       \* the tasks made by asyncio.create_task, in creation order
    evals,       \* the futures whose predicate the last dispatch call called
    dispatchErr, \* what the last dispatch call raised ("none": it returned)
    nListeners,  \* the number of listeners registered so far
    lastAdd      \* the last add_listener call: its arguments and how it ended

engineVars == <<listeners, waiters, futures, nEvents, lastEvent, tasks, evals,
                dispatchErr, nListeners, lastAdd>>

VARIABLES
    gw,          \* GatewayClient: _closed, authenticated, gateway_format, ...
    rest,        \* RESTClient: _prepared, session (and session.closed), configuration
    ws,          \* self.ws, the transport: its state and close_code
    backoff,     \* start()'s ExponentialBackoff
    lastDelay,   \* the delay the last backoff.delay() call slept for
    pc,          \* where the start() coroutine is suspended
    startErr,    \* the exception start() ended with ("none": none)
    closePc,     \* where the close() coroutine is suspended
    closeErr,    \* the exception the last close() call ended with
    nConnects,   \* connect() calls so far
    nFrames,     \* frames received so far
    sessionAuthed, \* the Authenticated event was handled since connect() began
    sent,        \* the frames sent on the current transport, in order
    nDelays,     \* backoff.delay() calls so far
    connectExc,  \* how the last connect() call ended: "none" (it has not),
                 \* "returned", or the exception it raised
    frameExc,    \* the exception raised while the last frame was processed
    lastCall,    \* the last of start(), close() and clear() that was called
    clearErr,    \* the exception the last clear() call ended with
    lastFrame,   \* the last data frame poll_loop() received: its number in
                 \* the run, its type and what it carries
    ad,          \* the client's AuthenticationData, and how its construction ended
    headers,     \* RESTClient.headers
    authMsg      \* the payload of the last Authenticate message, less its type

gatewayVars == <<gw, rest, ws, backoff, lastDelay, pc, startErr, closePc, closeErr,
                 nConnects, nFrames, sessionAuthed, sent, nDelays, connectExc, frameExc,
                 lastCall, clearErr, lastFrame, ad, headers, authMsg>>

authVars == <<ad, headers, authMsg>>

vars == <<engineVars, gatewayVars>>

\* ------------------------------------------------------ asyncio.Future
\* future.cancelled()
FutureCancelled(fs, fut) == fs[fut].state = "cancelled"

\* future.done()
FutureDone(fs, fut) == fs[fut].state # "pending"

\* The state of the engine as dispatch threads it through its loops; steps
\* lists, in order, the set_result and create_task calls dispatch has made.
EngineState == [waiters |-> waiters, futures |-> futures, tasks |-> tasks,
                evals |-> {}, err |-> "none", steps |-> <<>>]

\* One call made by dispatch: on the future or the listener id, of bucket key.
Step(op, key, id) == [op |-> op, key |-> key, id |-> id]

\* Mutant of SetResult: the result is set whatever the future's state.
SetResultOverwrites(st, fut, event) ==
    [st EXCEPT !.futures[fut].state = "result", !.futures[fut].value = event]

\* future.set_result(event): asyncio raises InvalidStateError when the future
\* is done or cancelled already.
SetResult(st, fut, event) ==
    IF FutureDone(st.futures, fut)
    THEN [st EXCEPT !.err = "InvalidStateError"]
    ELSE [st EXCEPT !.futures[fut].state = "result", !.futures[fut].value = event,
                    !.steps = Append(@, Step("set_result", st.futures[fut].key, fut))]

\* future.set_exception(e): the same rule; and asyncio (before Python 3.12)
\* refuses a StopIteration with a TypeError, leaving the future pending.
SetException(st, fut, event, exc) ==
    CASE FutureDone(st.futures, fut) -> [st EXCEPT !.err = "InvalidStateError"]
      [] exc = "StopIteration" -> [st EXCEPT !.err = "TypeError"]
      [] OTHER -> [st EXCEPT !.futures[fut].state = "exception",
                             !.futures[fut].value = event]

\* ------------------------------------------------ EventHandler.dispatch
\* Mutant of WaiterIsCancelled: the cancelled() test left out.
WaiterIsCancelledNever(st, w) == FALSE

\* `if future.cancelled():` of the waiter loop.
WaiterIsCancelled(st, w) == FutureCancelled(st.futures, w.fut)

\* Mutant of CheckEvent: the predicate's answer is ignored.
CheckEventAlwaysTrue(st, w, event) == [st |-> st, out |-> "true"]

\* add_waiter(cls, check=check) called while dispatch runs: the same
\* setdefault and append, on the registry dispatch is iterating.
AddWaiterIn(st, cls, check) ==
    [st EXCEPT !.futures = Append(@, [state |-> "pending", value |-> NoEvent,
                                      key |-> cls, check |-> check, calls |-> 0]),
               !.waiters = [k \in DOMAIN @ \cup {cls} |->
                              IF k = cls
                              THEN Append(IF cls \in DOMAIN @ THEN @[cls] ELSE <<>>,
                                          [fut |-> Len(st.futures) + 1, check |-> check])
                              ELSE @[k]]]

\* What the call of a predicate does to the registry: the add_waiter call
\* of a predicate that makes one.
CheckRegisters(st, w) ==
    LET key == st.futures[w.fut].key
    IN  CASE w.check = "addsSame" -> AddWaiterIn(st, key, "None")
          [] w.check = "addsOther" -> AddWaiterIn(st, OtherKey(key), "None")
          [] w.check = "addsSelf" -> AddWaiterIn(st, key, "addsSelf")
          [] OTHER -> st

\* `result = True; if check is not None: result = check(event)`: the state
\* with the call recorded, and the outcome.
CheckEvent(st, w, event) ==
    IF w.check = "None"
    THEN [st |-> st, out |-> "true"]
    ELSE [st |-> CheckRegisters([st EXCEPT !.evals = @ \cup {w.fut},
                                           !.futures[w.fut].calls = @ + 1], w),
          out |-> CheckOutcome(w.check, event)]

\* Mutant of OnCheckRaised: the predicate's exception is not caught; it
\* leaves dispatch.
OnCheckRaisedPropagates(st, w, event, idx, rem) ==
    [st |-> [st EXCEPT !.err = "Exception"], rem |-> rem]

\* `except Exception as e: result = False; future.set_exception(e);
\* to_remove.append(idx)`
OnCheckRaised(st, w, event, idx, rem) ==
    LET st1 == SetException(st, w.fut, event, Raised(w.check))
    IN  IF st1.err # "none" THEN [st |-> st1, rem |-> rem]
        ELSE [st |-> st1, rem |-> Append(rem, idx)]

\* The list iterator of the waiter loop reaches the entries appended during
\* the pass.  A predicate that appends a waiter with itself as the predicate
\* to the bucket being visited is called for that entry too, appends again,
\* and so on: the pass never ends and dispatch does not return.
PassGoesOn(w) == w.check = "addsSelf"

\* One pass of the body of `for idx, (future, check) in enumerate(waiters)`.
VisitWaiter(st, w, event, idx, rem) ==
    IF WaiterIsCancelled(st, w)
    THEN [st |-> st, rem |-> Append(rem, idx)]
    ELSE LET c == CheckEvent(st, w, event)
         IN  CASE PassGoesOn(w) -> [st |-> [c.st EXCEPT !.err = "NeverReturns"], rem |-> rem]
               [] c.out = "raise" -> OnCheckRaised(c.st, w, event, idx, rem)
               [] c.out = "true" ->
                    LET st1 == SetResult(c.st, w.fut, event)
                    IN  IF st1.err # "none" THEN [st |-> st1, rem |-> rem]
                        ELSE [st |-> st1, rem |-> Append(rem, idx)]
               [] OTHER -> [st |-> c.st, rem |-> rem]

\* The waiter loop over the bucket of cls, from index idx on.  The list is
\* read anew at every step, as Python's list iterator does; an exception
\* ends the loop.
RECURSIVE VisitWaiters(_, _, _, _, _)
VisitWaiters(st, cls, event, idx, rem) ==
    IF st.err # "none" \/ idx > Len(st.waiters[cls])
    THEN [st |-> st, rem |-> rem]
    ELSE LET r == VisitWaiter(st, st.waiters[cls][idx], event, idx, rem)
         IN  VisitWaiters(r.st, cls, event, idx + 1, r.rem)

\* list.pop(idx)
Pop(s, idx) == SubSeq(s, 1, idx - 1) \o SubSeq(s, idx + 1, Len(s))

\* `for idx in reversed(to_remove): waiters.pop(idx)`
RECURSIVE PopAll(_, _)
PopAll(s, rem) ==
    IF rem = <<>> THEN s
    ELSE PopAll(Pop(s, rem[Len(rem)]), SubSeq(rem, 1, Len(rem) - 1))

\* dict.pop(key)
DictPop(d, key) == [k \in DOMAIN d \ {key} |-> d[k]]

\* `if len(to_remove) == len(waiters): self.waiters.pop(cls)
\*  else: for idx in reversed(to_remove): waiters.pop(idx)`
RemoveWaiters(st, cls, rem) ==
    IF Len(rem) = Len(st.waiters[cls])
    THEN [st EXCEPT !.waiters = DictPop(@, cls)]
    ELSE [st EXCEPT !.waiters[cls] = PopAll(@, rem)]

\* `waiters = self.waiters.get(cls); if waiters is not None: ...`
ResolveWaiters(st, cls, event) ==
    IF cls \notin DOMAIN st.waiters THEN st
    ELSE LET r == VisitWaiters(st, cls, event, 1, <<>>)
         IN  IF r.st.err # "none" THEN r.st ELSE RemoveWaiters(r.st, cls, r.rem)

\* Mutant of CreateTask: the listener is run inline instead (awaited).
CreateTaskAwaited(listener, event, cls) ==
    [listener |-> listener, event |-> event.id, key |-> cls, state |-> "running",
     caught |-> FALSE]

\* asyncio.create_task(self.call_listener(listener, event)): the task is
\* made and scheduled; it does not run before dispatch's caller awaits.
CreateTask(listener, event, cls) ==
    [listener |-> listener, event |-> event.id, key |-> cls, state |-> "scheduled",
     caught |-> FALSE]

\* `for listener in self.listeners.get(cls, []): asyncio.create_task(...)`
RECURSIVE ScheduleFrom(_, _, _, _)
ScheduleFrom(ts, ls, event, cls) ==
    IF ls = <<>> THEN ts
    ELSE ScheduleFrom(Append(ts, CreateTask(Head(ls), event, cls)), Tail(ls), event, cls)

ScheduleListeners(st, cls, event) ==
    IF cls \notin DOMAIN listeners THEN st
    ELSE [st EXCEPT !.tasks = ScheduleFrom(@, listeners[cls], event, cls),
                    !.steps = @ \o [i \in 1..Len(listeners[cls]) |->
                                       Step("create_task", cls, listeners[cls][i])]]

\* Mutant of DispatchBucket: the listeners are scheduled before the waiters
\* of the bucket are visited.
DispatchBucketListenersFirst(st, cls, event) ==
    LET st1 == ScheduleListeners(st, cls, event)
    IN  ResolveWaiters(st1, cls, event)

\* The body of dispatch's outer loop for one class of the chain.
DispatchBucket(st, cls, event) ==
    LET st1 == ResolveWaiters(st, cls, event)
    IN  IF st1.err # "none" THEN st1 ELSE ScheduleListeners(st1, cls, event)

\* The outer loop of dispatch over the classes in order; an exception ends it.
RECURSIVE DispatchLoop(_, _, _)
DispatchLoop(st, order, event) ==
    IF st.err # "none" \/ order = <<>> THEN st
    ELSE DispatchLoop(DispatchBucket(st, Head(order), event), Tail(order), event)

\* EventHandler.dispatch(event)
Dispatch(st, event) == DispatchLoop(st, DispatchOrder(event.cls), event)

\* ------------------------------------------------ EventHandler.add_waiter
\* dict.setdefault(key, []) followed by list.append(item)
SetDefaultAppend(d, key, item) ==
    [k \in DOMAIN d \cup {key} |->
        IF k = key THEN Append(IF key \in DOMAIN d THEN d[key] ELSE <<>>, item)
        ELSE d[k]]

\* add_waiter(event_cls, check=check): a new pending future, appended to the
\* bucket of event_cls.
AddWaiter(cls, check) ==
    /\ Len(futures) < MaxWaiters
    /\ futures' = Append(futures, [state |-> "pending", value |-> NoEvent,
                                   key |-> cls, check |-> check, calls |-> 0])
    /\ waiters' = SetDefaultAppend(waiters, cls, [fut |-> Len(futures) + 1, check |-> check])
    /\ UNCHANGED <<listeners, nEvents, lastEvent, tasks, evals, dispatchErr, nListeners, lastAdd>>
    /\ UNCHANGED gatewayVars

\* future.cancel() by the future's holder (asyncio.wait_for does it when its
\* timeout expires); on a done future it does nothing.
CancelWaiter(fut) ==
    /\ fut \in 1..Len(futures)
    /\ futures[fut].state = "pending"
    /\ futures' = [futures EXCEPT ![fut].state = "cancelled"]
    /\ UNCHANGED <<listeners, waiters, nEvents, lastEvent, tasks, evals, dispatchErr,
                   nListeners, lastAdd>>
    /\ UNCHANGED gatewayVars

\* ---------------------------------------------- EventHandler.add_listener
\* The parameters of a listener, as inspect.signature reports them: kind,
\* whether the parameter has a default, and its type hint ("nohint": none).
P(kind, default, hint) == [kind |-> kind, default |-> default, hint |-> hint]

\* The callbacks of one parameter hinted with an Event class.
HintedSignatures == {<<P("POSITIONAL_OR_KEYWORD", FALSE, c)>> : c \in Classes}

Signatures ==
    {<<>>,
     <<P("KEYWORD_ONLY", FALSE, "Event")>>,
     <<P("POSITIONAL_OR_KEYWORD", FALSE, "nohint")>>,
     <<P("POSITIONAL_OR_KEYWORD", FALSE, "int")>>,
     <<P("POSITIONAL_OR_KEYWORD", FALSE, "Base"), P("POSITIONAL_OR_KEYWORD", FALSE, "nohint")>>,
     <<P("POSITIONAL_OR_KEYWORD", FALSE, "Base"), P("KEYWORD_ONLY", TRUE, "nohint")>>,
     <<P("POSITIONAL_OR_KEYWORD", FALSE, "nohint"), P("POSITIONAL_OR_KEYWORD", TRUE, "Derived")>>}
    \cup HintedSignatures

\* The event_cls argument: None, a class of the hierarchy, or another type.
EventClsArgs == {"None", "int"} \cup Classes

\* `for param in it: if param.default is inspect.Parameter.empty: raise`
MoreRequired(sig) == \E i \in 2..Len(sig) : ~sig[i].default

\* The parameter `param` names once the loop over the rest has run: the loop
\* reuses the name, so it is the last parameter.
HintParam(sig) == sig[Len(sig)]

\* No add_listener call has been made (or none that the model follows).
NoAdd == [sig |-> <<>>, event_cls |-> "None", err |-> "nocall"]

\* What add_listener does with (listener, event_cls): the TypeError it raises,
\* or the key it registers under.
ListenerKey(sig, event_cls) ==
    IF sig = <<>> THEN [err |-> "TypeError", key |-> "none"]
    ELSE IF sig[1].kind \notin {"POSITIONAL_ONLY", "POSITIONAL_OR_KEYWORD", "VAR_POSITIONAL"}
    THEN [err |-> "TypeError", key |-> "none"]
    ELSE IF MoreRequired(sig) THEN [err |-> "TypeError", key |-> "none"]
    ELSE LET cls == IF event_cls = "None" THEN HintParam(sig).hint ELSE event_cls
         IN  IF cls = "nohint" THEN [err |-> "TypeError", key |-> "none"]
             ELSE IF cls \notin Classes THEN [err |-> "TypeError", key |-> "none"]
             ELSE [err |-> "none", key |-> cls]

AddListener(sig, event_cls) ==
    /\ LET r == ListenerKey(sig, event_cls)
       IN  /\ lastAdd' = [sig |-> sig, event_cls |-> event_cls, err |-> r.err]
           /\ IF r.err = "none"
              THEN /\ nListeners < MaxListeners
                   /\ listeners' = SetDefaultAppend(listeners, r.key, nListeners + 1)
                   /\ nListeners' = nListeners + 1
              ELSE UNCHANGED <<listeners, nListeners>>
    /\ UNCHANGED <<waiters, futures, nEvents, lastEvent, tasks, evals, dispatchErr>>
    /\ UNCHANGED gatewayVars

\* ------------------------------------------------------- dispatch, called
\* The effect of EventHandler.dispatch(event) on the engine: st is
\* Dispatch(EngineState, event).
DispatchEffect(event, st) ==
    /\ nEvents' = nEvents + 1
    /\ lastEvent' = event
    /\ waiters' = st.waiters
    /\ futures' = st.futures
    /\ tasks' = st.tasks
    /\ evals' = st.evals
    /\ dispatchErr' = st.err
    /\ UNCHANGED <<listeners, nListeners, lastAdd>>

\* EventHandler.dispatch(event) on a new event of class cls, called directly.
DispatchEvent(cls, tag) ==
    /\ nEvents < MaxEvents
    /\ dispatchErr # "NeverReturns"
    /\ LET event == [id |-> nEvents + 1, cls |-> cls, tag |-> tag]
           st == Dispatch(EngineState, event)
       IN  /\ Len(st.futures) <= MaxWaiters \/ st.err = "NeverReturns"
           /\ DispatchEffect(event, st)
    /\ UNCHANGED gatewayVars

\* ------------------------------------------- EventHandler.call_listener
\* A listener's task starts: call_listener runs up to the await inside the
\* listener.
TaskStart(i) ==
    /\ i \in 1..Len(tasks)
    /\ tasks[i].state = "scheduled"
    /\ tasks' = [tasks EXCEPT ![i].state = "running"]
    /\ UNCHANGED <<listeners, waiters, futures, nEvents, lastEvent, evals, dispatchErr,
                   nListeners, lastAdd>>
    /\ UNCHANGED gatewayVars

\* Mutant of CallListenerEnds: no except clause, the exception leaves the task.
CallListenerEndsUncaught(task, outcome) ==
    IF outcome = "raise" THEN [task EXCEPT !.state = "failed"]
    ELSE [task EXCEPT !.state = "done"]

\* `try: await listener(event) / except Exception: print(...)`: the task ends
\* normally whether the listener returned or raised.
CallListenerEnds(task, outcome) ==
    IF outcome = "raise" THEN [task EXCEPT !.state = "done", !.caught = TRUE]
    ELSE [task EXCEPT !.state = "done"]

\* The listener of a running task returns or raises.  A listener that never
\* finishes is a task this action never takes.
TaskFinish(i, outcome) ==
    /\ i \in 1..Len(tasks)
    /\ tasks[i].state = "running"
    /\ tasks' = [tasks EXCEPT ![i] = CallListenerEnds(@, outcome)]
    /\ UNCHANGED <<listeners, waiters, futures, nEvents, lastEvent, evals, dispatchErr,
                   nListeners, lastAdd>>
    /\ UNCHANGED gatewayVars

\* ------------------------------------------------- ExponentialBackoff
BackoffBase == 1
BackoffMultiplier == 2
BackoffCap == 4

RECURSIVE Pow(_, _)
Pow(b, n) == IF n = 0 THEN 1 ELSE b * Pow(b, n - 1)

Min(a, b) == IF a <= b THEN a ELSE b

\* ExponentialBackoff(max_attempts=...)
NewBackoff(max_attempts) == [attempt |-> 0, max_attempts |-> max_attempts]

\* backoff.reset()
BackoffReset(b) == [b EXCEPT !.attempt = 0]

\* delay() fails only when max_attempts is set and reached.
BackoffExhausted(b) == b.max_attempts # "None" /\ b.attempt >= b.max_attempts

\* min(base * multiplier^attempt, cap), jitter left out.
BackoffNextDelay(b) == Min(BackoffBase * Pow(BackoffMultiplier, b.attempt), BackoffCap)

\* The attempt counter after a delay.
BackoffAdvance(b) == [b EXCEPT !.attempt = @ + 1]

\* ------------------------------------------------- GatewayClient.start
\* What I/O raises: the two transient kinds start() names, and anything else.
Excs == {"ClientError", "TimeoutError", "OtherError"}

\* The close codes a transport ends with.
CloseCodes == {"1000", "1006"}

\* The max_attempts start() makes its backoff with.
StartMaxAttempts == "None"

\* Mutant of IsRetryable: asyncio.TimeoutError is left out of the except clause.
IsRetryableClientErrorOnly(exc) == exc = "ClientError"

\* `except (aiohttp.ClientError, asyncio.TimeoutError):`
IsRetryable(exc) == exc \in {"ClientError", "TimeoutError"}

\* Mutant of ShouldReset: the backoff is reset on every iteration.
ShouldResetAlways(g) == TRUE

\* `if self.authenticated:` at the top of the loop
ShouldReset(g) == g.authenticated

\* Where start() stands: its position, its backoff, the last delay and the
\* exception it ended with.
StartAt(p, b, d, e) == [pc |-> p, backoff |-> b, delay |-> d, err |-> e]

\* The head of start()'s loop, up to the await in backoff.delay():
\* `while not self._closed: if self.authenticated: backoff.reset()
\*  await backoff.delay(...)`
LoopTop(g, b, d) ==
    IF g.closed THEN StartAt("returned", b, d, "none")
    ELSE LET b1 == IF ShouldReset(g) THEN BackoffReset(b) ELSE b
         IN  IF BackoffExhausted(b1) THEN StartAt("raised", b1, d, "BackoffExhausted")
             ELSE StartAt("delay", BackoffAdvance(b1), BackoffNextDelay(b1), "none")

\* connect() raised exc: `except (...): continue`, or the exception leaves
\* start().
ConnectRaised(exc, g) ==
    IF IsRetryable(exc) THEN LoopTop(g, backoff, lastDelay)
    ELSE StartAt("raised", backoff, lastDelay, exc)

\* Mutant of ConnectReturned: the close code is not looked at; the loop goes on.
ConnectReturnedAlwaysRetries(g, w) == LoopTop(g, backoff, lastDelay)

\* connect() returned: `if self.ws.close_code is None: return`, else the
\* close is logged and the loop goes on.
ConnectReturned(g, w) ==
    IF w.close_code = "None" THEN StartAt("returned", backoff, lastDelay, "none")
    ELSE LoopTop(g, backoff, lastDelay)

StartMoves(r) ==
    /\ pc' = r.pc
    /\ backoff' = r.backoff
    /\ lastDelay' = r.delay
    /\ startErr' = r.err
    /\ nDelays' = IF r.pc = "delay" THEN nDelays + 1 ELSE nDelays

\* start() is called: the backoff is made and the loop entered.
StartCall ==
    /\ pc = "idle"
    /\ lastCall' = "start"
    /\ UNCHANGED <<clearErr, lastFrame, authVars>>
    /\ StartMoves(LoopTop(gw, NewBackoff(StartMaxAttempts), lastDelay))
    /\ UNCHANGED <<gw, rest, ws, closePc, closeErr, nConnects, nFrames, sessionAuthed, sent,
                   connectExc, frameExc>>
    /\ UNCHANGED engineVars

\* ----------------------------------------------- GatewayClient.connect
\* The backoff delay is over: connect() begins.  It clears the authenticated
\* flag and prepares; RESTClient.prepare() returns at once when prepared and
\* otherwise makes a session and awaits fetch_configuration().
DelayDone ==
    /\ UNCHANGED <<lastCall, clearErr, lastFrame, authVars>>
    /\ pc = "delay"
    /\ nConnects < MaxConnects
    /\ nConnects' = nConnects + 1
    /\ sessionAuthed' = FALSE
    /\ LET g == [gw EXCEPT !.authenticated = FALSE]
       IN  IF g.prepared
           THEN /\ gw' = g
                /\ rest' = rest
                /\ connectExc' = "none"
                /\ StartMoves(StartAt("ws_connect", backoff, lastDelay, "none"))
           ELSE IF rest.prepared
           THEN IF rest.hasConfig
                THEN /\ gw' = [g EXCEPT !.hasUrl = TRUE, !.hasSession = TRUE]
                     /\ rest' = rest
                     /\ connectExc' = "none"
                     /\ StartMoves(StartAt("ws_connect", backoff, lastDelay, "none"))
                ELSE /\ gw' = g
                     /\ rest' = rest
                     /\ connectExc' = "AttributeError"
                     /\ StartMoves(ConnectRaised("AttributeError", g))
           ELSE /\ gw' = g
                /\ rest' = [rest EXCEPT !.hasSession = TRUE, !.sessionClosed = FALSE]
                /\ connectExc' = "none"
                /\ StartMoves(StartAt("fetch", backoff, lastDelay, "none"))
    /\ UNCHANGED <<ws, closePc, closeErr, nFrames, sent, frameExc>>
    /\ UNCHANGED engineVars

\* fetch_configuration() ends: with the configuration, after which prepare()
\* sets _prepared and connect() awaits ws_connect, or with an exception.
FetchDone(outcome) ==
    /\ UNCHANGED <<lastCall, clearErr, lastFrame, authVars>>
    /\ pc = "fetch"
    /\ IF outcome = "ok"
       THEN /\ rest' = [rest EXCEPT !.hasConfig = TRUE, !.prepared = TRUE]
            /\ gw' = [gw EXCEPT !.hasUrl = TRUE, !.hasSession = TRUE]
            /\ StartMoves(StartAt("ws_connect", backoff, lastDelay, "none"))
            /\ UNCHANGED connectExc
       ELSE /\ StartMoves(ConnectRaised(outcome, gw))
            /\ connectExc' = outcome
            /\ UNCHANGED <<gw, rest>>
    /\ UNCHANGED <<ws, closePc, closeErr, nConnects, nFrames, sessionAuthed, sent, frameExc>>
    /\ UNCHANGED engineVars

\* What session.ws_connect() can do: on a session that was closed (the one
\* RESTClient keeps is handed out again while _prepared is set) aiohttp
\* raises RuntimeError("Session is closed").
WsConnectOutcome(r, outcome) == IF r.sessionClosed THEN "RuntimeError" ELSE outcome

\* ------------------------------------------------- AuthenticationData
\* The values an argument of AuthenticationData() takes: "None" stands for
\* Python's None (the default of both), "" for the empty string.
Tokens == {"None", "", "bot"}
SessionTokens == {"None", "", "user"}

\* No AuthenticationData() call has been made.
Unbuilt == [args |-> [token |-> "None", session_token |-> "None"], err |-> "unbuilt",
            token |-> "unset", session_token |-> "unset"]

\* No Authenticate message has been written.
Unsent == {}

\* Mutant of AuthenticationDataInit: passing both arguments is accepted.
AuthenticationDataInitAcceptsBoth(token, session_token) ==
    LET args == [token |-> token, session_token |-> session_token]
    IN  IF token = "None" /\ session_token = "None"
        THEN [args |-> args, err |-> "ValueError", token |-> "unset", session_token |-> "unset"]
        ELSE [args |-> args, err |-> "none", token |-> token, session_token |-> session_token]

\* AuthenticationData.__init__: `if token is not None: if session_token is
\* not None: raise ValueError / elif session_token is None: raise ValueError`,
\* then both attributes are stored.
AuthenticationDataInit(token, session_token) ==
    LET args == [token |-> token, session_token |-> session_token]
    IN  IF token # "None"
        THEN IF session_token # "None"
             THEN [args |-> args, err |-> "ValueError", token |-> "unset", session_token |-> "unset"]
             ELSE [args |-> args, err |-> "none", token |-> token, session_token |-> session_token]
        ELSE IF session_token = "None"
             THEN [args |-> args, err |-> "ValueError", token |-> "unset", session_token |-> "unset"]
             ELSE [args |-> args, err |-> "none", token |-> token, session_token |-> session_token]

\* bool(v) of None or a string
Truthy(v) == v \notin {"None", ""}

\* Python's `a or b`: a if a is truthy, b otherwise.
Or(a, b) == IF Truthy(a) THEN a ELSE b

\* AuthenticationData.to_dict, as the set of its (key, value) items.
ToDict(a) == {<<"token", Or(a.token, a.session_token)>>}

\* AuthenticationData.to_headers, as the set of its (name, value) items.
ToHeaders(a) ==
    IF a.token # "None"
    THEN {<<"x-bot-token", Or(a.token, a.session_token)>>}
    ELSE {<<"x-session-token", a.session_token>>}

\* Mutant of Handshake: connect() writes nothing before it next suspends.
HandshakeDeferred == <<>>

\* What connect() writes to the new transport before it next suspends:
\* `self.ws = await ...ws_connect(...)` is followed with no await in between
\* by authenticate(), whose send_str/send_bytes writes the frame and only
\* then awaits.
Handshake == <<"Authenticate">>

\* session.ws_connect() ends: with a new open transport, on which connect()
\* writes the Authenticate message and awaits the end of authenticate(), or
\* with an exception.
WsConnectDone(outcome) ==
    /\ UNCHANGED <<lastCall, clearErr, lastFrame, ad, headers>>
    /\ pc = "ws_connect"
    /\ LET o == WsConnectOutcome(rest, outcome)
       IN  IF o = "ok"
           THEN /\ ws' = [state |-> "open", close_code |-> "None"]
                /\ gw' = [gw EXCEPT !.hasWs = TRUE]
                /\ sent' = Handshake
                /\ authMsg' = IF Handshake = <<>> THEN authMsg ELSE ToDict(ad)
                /\ StartMoves(StartAt("authenticate", backoff, lastDelay, "none"))
                /\ UNCHANGED connectExc
           ELSE /\ StartMoves(ConnectRaised(o, gw))
                /\ connectExc' = o
                /\ UNCHANGED <<gw, ws, sent, authMsg>>
    /\ UNCHANGED <<rest, closePc, closeErr, nConnects, nFrames, sessionAuthed, frameExc>>
    /\ UNCHANGED engineVars

\* Mutant of SendFailed: the connection is still up after the failed send.
SendFailedKeepsOpen(w) == w

\* The transport after send_str/send_bytes raised: aiohttp raises from a send
\* when the connection is closing or lost, so the connection is gone, while
\* the response object is not marked closed (ws.closed is False, close_code
\* None); "closing_lost" is the lost connection that a close() call is still
\* closing.
SendFailed(w) ==
    CASE w.state = "open" -> [w EXCEPT !.state = "lost"]
      [] w.state = "closing" -> [w EXCEPT !.state = "closing_lost"]
      [] OTHER -> w

\* authenticate()'s send ends: poll_loop() awaits the first frame, or the
\* send raised.
AuthenticateDone(outcome) ==
    /\ UNCHANGED <<lastCall, clearErr, lastFrame, authVars>>
    /\ pc = "authenticate"
    /\ IF outcome = "ok"
       THEN /\ StartMoves(StartAt("poll", backoff, lastDelay, "none"))
            /\ UNCHANGED <<connectExc, ws>>
       ELSE /\ StartMoves(ConnectRaised(outcome, gw))
            /\ connectExc' = outcome
            /\ ws' = SendFailed(ws)
    /\ UNCHANGED <<gw, rest, closePc, closeErr, nConnects, nFrames, sessionAuthed,
                   sent, frameExc>>
    /\ UNCHANGED engineVars

\* ------------------------- GatewayClient.begin_typing / end_typing / ping
\* The messages the helpers send.
HelperKinds == {"BeginTyping", "EndTyping", "Ping"}

\* A helper is called from another task: send_message() writes to self.ws.
\* With no self.ws yet it raises AttributeError, and on a transport that is
\* closing or closed aiohttp raises ConnectionResetError: nothing is sent.
SendHelper(kind) ==
    /\ Len(sent) < MaxSent
    /\ IF gw.hasWs /\ ws.state = "open"
       THEN sent' = Append(sent, kind)
       ELSE UNCHANGED sent
    /\ UNCHANGED <<gw, rest, ws, backoff, lastDelay, pc, startErr, closePc, closeErr,
                   nConnects, nFrames, sessionAuthed, nDelays, connectExc, frameExc,
                   lastCall, clearErr, lastFrame, authVars>>
    /\ UNCHANGED engineVars

\* --------------------------------------------- GatewayClient.poll_loop
\* What a data frame carries: the Authenticated acknowledgement, an Error
\* that rejects the credentials, an ordinary event, or bytes no event can be
\* made from.
Payloads == {"Authenticated", "Error", "Message", "garbage"}

FrameTypes == {"TEXT", "BINARY"}

\* _parse_json_message / _parse_msgpack_message: the frame type the format
\* accepts.
AcceptedType(format) == IF format = "json" THEN "TEXT" ELSE "BINARY"

\* The class of the event a payload decodes to.
EventClassOf(payload) == IF payload = "Message" THEN "Derived" ELSE "Base"

\* `Event._from_dict(self.state, self.parse_message(msg))`: the exception it
\* raises, "none" when it makes an event.
DecodeExc(format, type, payload) ==
    IF type # AcceptedType(format) THEN "RuntimeError"
    ELSE IF payload = "garbage" THEN "Exception"
    ELSE "none"

\* `await event._gateway_handle()`: the exception it raises.  The Error event
\* that rejects the credentials raises AuthenticationError.
HandleExc(payload) == IF payload = "Error" THEN "AuthenticationError" ELSE "none"

\* `await event._gateway_handle()`: what it does to the gateway client.  The
\* Authenticated event marks the client authenticated.
HandleEffect(g, payload) ==
    IF payload = "Authenticated" THEN [g EXCEPT !.authenticated = TRUE] ELSE g

\* The exception the try body of poll_loop() raises for a frame.
FrameExc(format, type, payload) ==
    LET d == DecodeExc(format, type, payload)
    IN  IF d # "none" THEN d ELSE HandleExc(payload)

\* Mutant of OnFrameExc: no `except Exception` clause; every exception leaves
\* poll_loop().
OnFrameExcRaisesAll(exc) == "raise"

\* Mutant of OnFrameExc: no `except AuthenticationError: raise` clause.
OnFrameExcLogsAll(exc) == "skip"

\* `except AuthenticationError: raise / except Exception as exc: log; continue`
OnFrameExc(exc) == IF exc = "AuthenticationError" THEN "raise" ELSE "skip"

\* Mutant of FrameEvent: the event of the frame before is dispatched again.
FrameEventStale(payload) ==
    IF lastEvent = NoEvent
    THEN [id |-> nEvents + 1, cls |-> EventClassOf(payload), tag |-> "A"]
    ELSE lastEvent

\* `event = Event._from_dict(self.state, self.parse_message(msg))`: the event
\* made from the frame poll_loop() has just received.
FrameEvent(payload) == [id |-> nEvents + 1, cls |-> EventClassOf(payload), tag |-> "A"]

\* A data frame arrives while poll_loop() awaits one.
RecvFrame(type, payload) ==
    /\ UNCHANGED <<lastCall, clearErr, authVars>>
    /\ lastFrame' = [n |-> nFrames + 1, type |-> type, payload |-> payload]
    /\ pc = "poll"
    /\ ws.state = "open"
    /\ nFrames < MaxFrames
    /\ nFrames' = nFrames + 1
    /\ LET exc == FrameExc(gw.format, type, payload)
           g == HandleEffect(gw, payload)
           event == FrameEvent(payload)
           st == Dispatch(EngineState, event)
       IN  /\ frameExc' = exc
           /\ IF exc # "none"
              THEN /\ IF OnFrameExc(exc) = "raise"
                      THEN /\ StartMoves(StartAt("raised", backoff, lastDelay, exc))
                           /\ connectExc' = exc
                      ELSE UNCHANGED <<pc, backoff, lastDelay, startErr, nDelays, connectExc>>
                   /\ UNCHANGED <<gw, sessionAuthed>>
                   /\ UNCHANGED engineVars
              ELSE /\ gw' = g
                   /\ sessionAuthed' = (sessionAuthed \/ g.authenticated)
                   /\ DispatchEffect(event, st)
                   /\ IF st.err = "none"
                      THEN UNCHANGED <<pc, backoff, lastDelay, startErr, nDelays, connectExc>>
                      ELSE /\ StartMoves(ConnectRaised(st.err, g))
                           /\ connectExc' = st.err
    /\ UNCHANGED <<rest, ws, closePc, closeErr, nConnects, sent>>

\* An ERROR frame arrives: `raise msg.data`.  aiohttp has closed the
\* transport by then.
RecvError(exc) ==
    /\ UNCHANGED <<lastCall, clearErr, lastFrame, authVars>>
    /\ pc = "poll"
    /\ ws.state = "open"
    /\ nFrames < MaxFrames
    /\ nFrames' = nFrames + 1
    /\ ws' = [state |-> "closed", close_code |-> "1006"]
    /\ StartMoves(ConnectRaised(exc, gw))
    /\ connectExc' = exc
    /\ UNCHANGED <<gw, rest, closePc, closeErr, nConnects, sessionAuthed, sent, frameExc>>
    /\ UNCHANGED engineVars

\* The server closes the transport with a close code: `async for` ends,
\* connect() returns and start() looks at ws.close_code.
RecvClose(code) ==
    /\ UNCHANGED <<lastCall, clearErr, lastFrame, authVars>>
    /\ pc = "poll"
    /\ ws.state = "open"
    /\ ws' = [state |-> "closed", close_code |-> code]
    /\ StartMoves(ConnectReturned(gw, ws'))
    /\ connectExc' = "returned"
    /\ UNCHANGED <<gw, rest, closePc, closeErr, nConnects, nFrames, sessionAuthed, sent,
                   frameExc>>
    /\ UNCHANGED engineVars

\* The transport is being closed or is closed by close(): ws.close() breaks
\* a pending receive before it goes on, and a receive on a closed transport
\* returns at once.  `async for` ends and start() looks at ws.close_code.
PollWoken ==
    /\ UNCHANGED <<lastCall, clearErr, lastFrame, authVars>>
    /\ pc = "poll"
    /\ ws.state \in {"closing", "closed"}
    /\ StartMoves(ConnectReturned(gw, ws))
    /\ connectExc' = "returned"
    /\ UNCHANGED <<gw, rest, ws, closePc, closeErr, nConnects, nFrames, sessionAuthed, sent,
                   frameExc>>
    /\ UNCHANGED engineVars

\* ------------------------------- Client.close / GatewayClient.close
\* RESTClient.close(): nothing when not prepared; otherwise it reads
\* self.session, which clear() may have deleted, and closes it.
RestClose(r) ==
    IF ~r.prepared THEN [rest |-> r, err |-> "none"]
    ELSE IF ~r.hasSession THEN [rest |-> r, err |-> "AttributeError"]
    ELSE [rest |-> [r EXCEPT !.sessionClosed = TRUE], err |-> "none"]

\* `if not self.ws.closed:` reads self.ws, which only connect() sets.
CloseReadsWs(g) == IF g.hasWs THEN "none" ELSE "AttributeError"

\* ws.close() ends on the transport it was called on: that one is closed
\* with a close code; the transport connect() has opened since, if any, is
\* not touched.
WsCloseEnds(w, code) ==
    IF w.state \in {"closing", "closing_lost"} THEN [state |-> "closed", close_code |-> code]
    ELSE w

\* ws.close() on a connection that is lost: the close frame cannot be
\* written, aiohttp marks the response closed with code 1006 and returns.
WsCloseLost(w) == IF w.state = "lost" THEN [state |-> "closed", close_code |-> "1006"] ELSE w

\* Client.close() is called (Client._closed is never set, so its own test
\* never returns early): GatewayClient.close() returns at once when closed
\* already, fails when there is no self.ws, marks the client closed when the
\* transport is closed already, and otherwise awaits ws.close(); when it has
\* returned, RESTClient.close() follows.
CloseCall ==
    /\ closePc = "idle"
    /\ lastCall' = "close"
    /\ UNCHANGED <<clearErr, lastFrame, authVars>>
    /\ IF gw.closed
       THEN /\ rest' = RestClose(rest).rest
            /\ closeErr' = RestClose(rest).err
            /\ UNCHANGED <<gw, ws, closePc>>
       ELSE IF CloseReadsWs(gw) # "none"
       THEN /\ closeErr' = CloseReadsWs(gw)
            /\ UNCHANGED <<gw, rest, ws, closePc>>
       ELSE IF ws.state # "open"
       THEN /\ gw' = [gw EXCEPT !.closed = TRUE, !.authenticated = FALSE]
            /\ rest' = RestClose(rest).rest
            /\ closeErr' = RestClose(rest).err
            /\ ws' = WsCloseLost(ws)
            /\ UNCHANGED closePc
       ELSE /\ ws' = [ws EXCEPT !.state = "closing"]
            /\ closePc' = "ws_close"
            /\ closeErr' = "none"
            /\ UNCHANGED <<gw, rest>>
    /\ UNCHANGED <<backoff, lastDelay, pc, startErr, nConnects, nFrames,
                   sessionAuthed, sent, nDelays, connectExc, frameExc>>
    /\ UNCHANGED engineVars

\* ws.close() ends, once a pending receive has returned: the transport is
\* closed with a close code, close() sets _closed and clears authenticated,
\* and RESTClient.close() follows.
CloseDone(code) ==
    /\ UNCHANGED <<lastCall, clearErr, lastFrame, authVars>>
    /\ closePc = "ws_close"
    /\ pc # "poll"
    /\ ws' = WsCloseEnds(ws, code)
    /\ gw' = [gw EXCEPT !.closed = TRUE, !.authenticated = FALSE]
    /\ rest' = RestClose(rest).rest
    /\ closeErr' = RestClose(rest).err
    /\ closePc' = "idle"
    /\ UNCHANGED <<backoff, lastDelay, pc, startErr, nConnects, nFrames,
                   sessionAuthed, sent, nDelays, connectExc, frameExc>>
    /\ UNCHANGED engineVars

\* GatewayClient.close() is called on its own, the REST client left as it is.
GatewayCloseCall ==
    /\ closePc = "idle"
    /\ lastCall' = "close"
    /\ UNCHANGED <<clearErr, lastFrame, authVars>>
    /\ IF gw.closed
       THEN /\ closeErr' = "none"
            /\ UNCHANGED <<gw, ws, closePc>>
       ELSE IF CloseReadsWs(gw) # "none"
       THEN /\ closeErr' = CloseReadsWs(gw)
            /\ UNCHANGED <<gw, ws, closePc>>
       ELSE IF ws.state # "open"
       THEN /\ gw' = [gw EXCEPT !.closed = TRUE, !.authenticated = FALSE]
            /\ closeErr' = "none"
            /\ ws' = WsCloseLost(ws)
            /\ UNCHANGED closePc
       ELSE /\ ws' = [ws EXCEPT !.state = "closing"]
            /\ closePc' = "gateway_ws_close"
            /\ closeErr' = "none"
            /\ UNCHANGED gw
    /\ UNCHANGED <<rest, backoff, lastDelay, pc, startErr, nConnects, nFrames,
                   sessionAuthed, sent, nDelays, connectExc, frameExc>>
    /\ UNCHANGED engineVars

\* ws.close() of a GatewayClient.close() call ends: the transport is closed
\* with a close code and close() sets _closed and clears authenticated.
GatewayCloseDone(code) ==
    /\ UNCHANGED <<lastCall, clearErr, lastFrame, authVars>>
    /\ closePc = "gateway_ws_close"
    /\ pc # "poll"
    /\ ws' = WsCloseEnds(ws, code)
    /\ gw' = [gw EXCEPT !.closed = TRUE, !.authenticated = FALSE]
    /\ closePc' = "idle"
    /\ UNCHANGED <<rest, closeErr, backoff, lastDelay, pc, startErr, nConnects, nFrames,
                   sessionAuthed, sent, nDelays, connectExc, frameExc>>
    /\ UNCHANGED engineVars

\* ------------------------------------------------------- Client.clear
\* GatewayClient.clear(): nothing unless _prepared (which nothing sets);
\* otherwise url and session are deleted.  _closed is left as it is.
GatewayClear(g) ==
    IF ~g.prepared THEN [gw |-> g, err |-> "none"]
    ELSE IF ~(g.hasUrl /\ g.hasSession) THEN [gw |-> g, err |-> "AttributeError"]
    ELSE [gw |-> [g EXCEPT !.hasUrl = FALSE, !.hasSession = FALSE], err |-> "none"]

\* RESTClient.clear(): nothing unless _prepared; otherwise session and
\* configuration are deleted.  _prepared is left set.
RestClear(r) ==
    IF ~r.prepared THEN [rest |-> r, err |-> "none"]
    ELSE IF ~(r.hasSession /\ r.hasConfig) THEN [rest |-> r, err |-> "AttributeError"]
    ELSE [rest |-> [r EXCEPT !.hasSession = FALSE, !.hasConfig = FALSE], err |-> "none"]

\* State.clear(): it clears the gateway client, then the REST client.
StateClear(g, r) ==
    LET c == GatewayClear(g)
    IN  IF c.err # "none" THEN [gw |-> c.gw, rest |-> r, err |-> c.err]
        ELSE [gw |-> c.gw, rest |-> RestClear(r).rest, err |-> RestClear(r).err]

\* Client.clear() is called, as its documentation asks: after close() and
\* after the previous connection has finished; it may be called again.
ClearCall ==
    /\ lastCall \in {"close", "clear"}
    /\ closePc = "idle"
    /\ pc \in {"idle", "returned", "raised"}
    /\ lastCall' = "clear"
    /\ gw' = StateClear(gw, rest).gw
    /\ rest' = StateClear(gw, rest).rest
    /\ clearErr' = StateClear(gw, rest).err
    /\ UNCHANGED <<lastFrame, authVars>>
    /\ UNCHANGED <<ws, backoff, lastDelay, pc, startErr, closePc, closeErr, nConnects, nFrames,
                   sessionAuthed, sent, nDelays, connectExc, frameExc>>
    /\ UNCHANGED engineVars

\* start() is called again on a client whose previous start() has ended.
StartAgain ==
    /\ pc \in {"returned", "raised"}
    /\ lastCall' = "start"
    /\ StartMoves(LoopTop(gw, NewBackoff(StartMaxAttempts), lastDelay))
    /\ UNCHANGED <<gw, rest, ws, closePc, closeErr, nConnects, nFrames, sessionAuthed, sent,
                   connectExc, frameExc, clearErr, lastFrame, authVars>>
    /\ UNCHANGED engineVars

InitConnection ==
    /\ gw \in {[closed |-> FALSE, authenticated |-> FALSE, prepared |-> FALSE,
               hasUrl |-> FALSE, hasSession |-> FALSE, hasWs |-> FALSE,
               format |-> f] : f \in {"json", "msgpack"}}
    /\ rest = [prepared |-> FALSE, hasSession |-> FALSE, hasConfig |-> FALSE,
               sessionClosed |-> FALSE]
    /\ ws = [state |-> "none", close_code |-> "None"]
    /\ backoff = NewBackoff(StartMaxAttempts)
    /\ lastDelay = 0
    /\ pc = "idle"
    /\ startErr = "none"
    /\ closePc = "idle"
    /\ closeErr = "none"
    /\ nConnects = 0
    /\ nFrames = 0
    /\ sessionAuthed = FALSE
    /\ sent = <<>>
    /\ nDelays = 0
    /\ connectExc = "none"
    /\ frameExc = "none"
    /\ lastCall = "none"
    /\ clearErr = "none"
    /\ lastFrame = [n |-> 0, type |-> "none", payload |-> "none"]

\* A client constructed with a bot token: Client.__init__ builds the
\* credential holder, and RESTClient.__init__ reads its headers.
InitGateway ==
    /\ InitConnection
    /\ ad = AuthenticationDataInit("bot", "None")
    /\ headers = ToHeaders(ad)
    /\ authMsg = Unsent

InitEngine ==
    /\ listeners = <<>>
    /\ waiters = <<>>
    /\ futures = <<>>
    /\ nEvents = 0
    /\ lastEvent = NoEvent
    /\ tasks = <<>>
    /\ evals = {}
    /\ dispatchErr = "none"
    /\ nListeners = 0
    /\ lastAdd = NoAdd
    /\ InitGateway

\* Client(token=..., session_token=...): the credential holder is built first
\* and a ValueError leaves no client; else RESTClient.__init__ reads the
\* headers from it.
NewClient(token, session_token) ==
    /\ ad.err # "none"
    /\ ad' = AuthenticationDataInit(token, session_token)
    /\ headers' = IF ad'.err = "none" THEN ToHeaders(ad') ELSE headers
    /\ UNCHANGED <<gw, rest, ws, backoff, lastDelay, pc, startErr, closePc, closeErr, nConnects,
                   nFrames, sessionAuthed, sent, nDelays, connectExc, frameExc, lastCall,
                   clearErr, lastFrame, authMsg>>
    /\ UNCHANGED engineVars

\* The program before Client() is called.
InitAuth ==
    /\ listeners = <<>>
    /\ waiters = <<>>
    /\ futures = <<>>
    /\ nEvents = 0
    /\ lastEvent = NoEvent
    /\ tasks = <<>>
    /\ evals = {}
    /\ dispatchErr = "none"
    /\ nListeners = 0
    /\ lastAdd = NoAdd
    /\ InitConnection
    /\ ad = Unbuilt
    /\ headers = {}
    /\ authMsg = Unsent

\* Client() with every combination of credentials, and the client it built
\* connecting and authenticating.
NextAuth ==
    \/ \E t \in Tokens, s \in SessionTokens : NewClient(t, s)
    \/ (ad.err = "none" /\ StartCall)
    \/ DelayDone
    \/ FetchDone("ok")
    \/ \E o \in {"ok", "ClientError"} : WsConnectDone(o)
    \/ AuthenticateDone("ok")
    \/ \E c \in CloseCodes : RecvClose(c)

SpecAuth == InitAuth /\ [][NextAuth]_vars

\* The engine with listeners only: registration and dispatch.  The gateway
\* does not run; its format is of no matter and is fixed.
InitListeners == InitEngine /\ gw.format = "json"

NextListeners ==
    \/ \E sig \in HintedSignatures : AddListener(sig, "None")
    \/ \E cls \in EventClasses, tag \in Tags : DispatchEvent(cls, tag)

SpecListeners == InitListeners /\ [][NextListeners]_vars

\* Registration alone: add_listener with callbacks of every shape, with and
\* without an event type, and add_waiter.
NextRegistration ==
    \/ \E sig \in Signatures, a \in EventClsArgs : AddListener(sig, a)
    \/ \E cls \in WaiterKeys : AddWaiter(cls, "None")

SpecRegistration == InitListeners /\ [][NextRegistration]_vars

\* The engine with waiters and their cancellation.  It starts after three
\* add_listener calls, one listener per class, so that every event has
\* listeners at every bucket of its chain.
InitWaiters ==
    /\ listeners = [c \in Classes |->
                      <<CASE c = "Event" -> 1 [] c = "Base" -> 2 [] OTHER -> 3>>]
    /\ nListeners = Cardinality(Classes)
    /\ lastAdd = NoAdd
    /\ waiters = <<>>
    /\ futures = <<>>
    /\ nEvents = 0
    /\ lastEvent = NoEvent
    /\ tasks = <<>>
    /\ evals = {}
    /\ dispatchErr = "none"
    /\ InitGateway
    /\ gw.format = "json"

NextWaiters ==
    \/ \E cls \in WaiterKeys, check \in PlainChecks : AddWaiter(cls, check)
    \/ \E fut \in 1..MaxWaiters : CancelWaiter(fut)
    \/ \E cls \in EventClasses, tag \in Tags : DispatchEvent(cls, tag)

SpecWaiters == InitWaiters /\ [][NextWaiters]_vars

\* The engine with waiters of every kind of predicate, the one that raises
\* StopIteration included.  It starts after one add_listener call on the
\* root class.
InitPredicates ==
    /\ listeners = [c \in {"Event"} |-> <<1>>]
    /\ nListeners = 1
    /\ lastAdd = NoAdd
    /\ waiters = <<>>
    /\ futures = <<>>
    /\ nEvents = 0
    /\ lastEvent = NoEvent
    /\ tasks = <<>>
    /\ evals = {}
    /\ dispatchErr = "none"
    /\ InitGateway
    /\ gw.format = "json"

NextPredicates ==
    \/ \E cls \in WaiterKeys, check \in Checks : AddWaiter(cls, check)
    \/ \E fut \in 1..MaxWaiters : CancelWaiter(fut)
    \/ \E cls \in EventClasses, tag \in Tags : DispatchEvent(cls, tag)

SpecPredicates == InitPredicates /\ [][NextPredicates]_vars

\* The engine with waiters whose predicates register waiters while dispatch
\* runs.  A dispatch call that does not return leaves nothing else to run.
NextReentrant ==
    \/ \E cls \in WaiterKeys, check \in {"None"} \cup ReentrantChecks :
         dispatchErr # "NeverReturns" /\ AddWaiter(cls, check)
    \/ \E cls \in EventClasses, tag \in Tags : DispatchEvent(cls, tag)

SpecReentrant == InitWaiters /\ [][NextReentrant]_vars

\* The gateway client running: start() and close() with the server's and the
\* network's moves.  No listener or waiter is registered.
Init == InitEngine

Next ==
    \/ StartCall
    \/ DelayDone
    \/ \E o \in {"ok"} \cup Excs : FetchDone(o)
    \/ \E o \in {"ok"} \cup Excs : WsConnectDone(o)
    \/ \E o \in {"ok"} \cup Excs : AuthenticateDone(o)
    \/ \E t \in FrameTypes, p \in Payloads : RecvFrame(t, p)
    \/ \E e \in Excs : RecvError(e)
    \/ \E c \in CloseCodes : RecvClose(c)
    \/ PollWoken
    \/ CloseCall
    \/ \E c \in CloseCodes : CloseDone(c)

Spec == Init /\ [][Next]_vars

\* The gateway client used again: close(), clear() and a new start().
NextReuse ==
    \/ Next
    \/ ClearCall
    \/ StartAgain

SpecReuse == Init /\ [][NextReuse]_vars

\* The gateway client connecting and reconnecting while other tasks call the
\* sending helpers.
NextHandshake ==
    \/ StartCall
    \/ DelayDone
    \/ FetchDone("ok")
    \/ \E o \in {"ok", "ClientError"} : WsConnectDone(o)
    \/ \E o \in {"ok", "ClientError"} : AuthenticateDone(o)
    \/ \E t \in FrameTypes, p \in Payloads : RecvFrame(t, p)
    \/ \E c \in CloseCodes : RecvClose(c)
    \/ \E k \in HelperKinds : SendHelper(k)

SpecHandshake == Init /\ [][NextHandshake]_vars

\* The gateway client running with GatewayClient.close() called at any
\* moment; connecting succeeds or fails with an error start() retries.
NextClose ==
    \/ StartCall
    \/ DelayDone
    \/ \E o \in {"ok", "ClientError"} : FetchDone(o)
    \/ \E o \in {"ok", "ClientError"} : WsConnectDone(o)
    \/ \E o \in {"ok", "ClientError"} : AuthenticateDone(o)
    \/ \E c \in CloseCodes : RecvClose(c)
    \/ PollWoken
    \/ GatewayCloseCall
    \/ \E c \in CloseCodes : GatewayCloseDone(c)

\* What the event loop and the network's timeouts bring about in the end:
\* the delay passes, a request or a send ends, a receive that close() broke
\* returns, the closing handshake ends.  That the server sends or closes is
\* not among them.
CloseProgress ==
    \/ DelayDone
    \/ \E o \in {"ok", "ClientError"} : FetchDone(o)
    \/ \E o \in {"ok", "ClientError"} : WsConnectDone(o)
    \/ \E o \in {"ok", "ClientError"} : AuthenticateDone(o)
    \/ PollWoken
    \/ \E c \in CloseCodes : GatewayCloseDone(c)

SpecClose == Init /\ [][NextClose]_vars /\ WF_vars(CloseProgress)

\* One connection of the gateway client with listeners registered and their
\* tasks running beside poll_loop().  It starts after two add_listener calls,
\* one on the root class and one on Derived.
InitTasks ==
    /\ listeners = [c \in {"Event", "Derived"} |-> IF c = "Event" THEN <<1>> ELSE <<2>>]
    /\ nListeners = 2
    /\ lastAdd = NoAdd
    /\ waiters = <<>>
    /\ futures = <<>>
    /\ nEvents = 0
    /\ lastEvent = NoEvent
    /\ tasks = <<>>
    /\ evals = {}
    /\ dispatchErr = "none"
    /\ InitGateway

NextTasks ==
    \/ StartCall
    \/ DelayDone
    \/ FetchDone("ok")
    \/ WsConnectDone("ok")
    \/ AuthenticateDone("ok")
    \/ \E t \in FrameTypes, p \in Payloads : RecvFrame(t, p)
    \/ \E i \in 1..Len(tasks) : TaskStart(i)
    \/ \E i \in 1..Len(tasks), o \in {"return", "raise"} : TaskFinish(i, o)

SpecTasks == InitTasks /\ [][NextTasks]_vars

\* The gateway client receiving frames, with listeners registered, waiters
\* without predicate being added, and the listeners' tasks running.
NextFrames ==
    \/ StartCall
    \/ DelayDone
    \/ FetchDone("ok")
    \/ WsConnectDone("ok")
    \/ AuthenticateDone("ok")
    \/ \E t \in FrameTypes, p \in Payloads : RecvFrame(t, p)
    \/ \E cls \in WaiterKeys : AddWaiter(cls, "None")
    \/ \E i \in 1..Len(tasks) : TaskStart(i)

SpecFrames == InitTasks /\ [][NextFrames]_vars

\* ================================================================ claims
\* key is cls or an ancestor of cls (Event is the root of every chain).
RECURSIVE OnChain(_, _)
OnChain(key, cls) ==
    IF cls = "object" THEN FALSE
    ELSE key = cls \/ OnChain(key, Parent(cls))

\* The depth of a class below the root.
RECURSIVE Depth(_)
Depth(cls) == IF cls = "Event" THEN 0 ELSE 1 + Depth(Parent(cls))

\* A step that is one dispatch call.
IsDispatchStep == nEvents' = nEvents + 1

\* The tasks a step has made.
NewTasks == SubSeq(tasks', Len(tasks) + 1, Len(tasks'))

\* The key listener l is registered under.
KeyOf(l) == CHOOSE k \in DOMAIN listeners : \E i \in 1..Len(listeners[k]) : listeners[k][i] = l

\* C1: a dispatch call makes its tasks bucket by bucket from the root Event
\* class down to the event's own class, and makes exactly one task for every
\* listener registered on a class of the event's chain and none for the others;
\* the tasks made before stay as they are.
C1_RootToLeafOnce ==
    [][IsDispatchStep =>
        LET new == NewTasks
            e == lastEvent'
        IN  /\ dispatchErr' = "none"
            /\ Len(tasks') >= Len(tasks)
            /\ SubSeq(tasks', 1, Len(tasks)) = tasks
            /\ \A i \in 1..Len(new) : new[i].event = e.id /\ new[i].state = "scheduled"
            /\ \A i, j \in 1..Len(new) : i < j => Depth(new[i].key) <= Depth(new[j].key)
            /\ \A l \in 1..nListeners :
                 Cardinality({i \in 1..Len(new) : new[i].listener = l /\ new[i].key = KeyOf(l)})
                   = (IF OnChain(KeyOf(l), e.cls) THEN 1 ELSE 0)
            /\ Len(new) = Cardinality({l \in 1..nListeners : OnChain(KeyOf(l), e.cls)})
      ]_vars

\* C1 witness: listeners on Event, Base and Derived, and a Derived event whose
\* three tasks were made in that order.
C1_Witness ==
    /\ lastEvent.cls = "Derived"
    /\ \E i \in 1..Len(tasks) :
        /\ i + 2 <= Len(tasks)
        /\ tasks[i].event = lastEvent.id /\ tasks[i].key = "Event"
        /\ tasks[i + 1].event = lastEvent.id /\ tasks[i + 1].key = "Base"
        /\ tasks[i + 2].event = lastEvent.id /\ tasks[i + 2].key = "Derived"

\* Future f is held by an entry of the waiter registry reg.
InRegistry(reg, f) == \E k \in DOMAIN reg : \E i \in 1..Len(reg[k]) : reg[k][i].fut = f

\* The waiters a dispatch of event e visits: registered on a class of e's chain.
Visited(e) == {f \in 1..Len(futures) : InRegistry(waiters, f) /\ OnChain(futures[f].key, e.cls)}

\* What dispatching e makes of a pending waiter with the given predicate:
\* no predicate matches every event, isB matches the events tagged B.
Expected(check, e) ==
    CASE check = "None" -> "result"
      [] check \in {"raises", "raisesStop"} -> "exception"
      [] check = "isB" /\ e.tag = "B" -> "result"
      [] OTHER -> "pending"

\* A step has treated the pending waiter f as dispatch of e should.
ProcessedNormally(f, e) ==
    /\ futures'[f].state = Expected(futures[f].check, e)
    /\ futures'[f].state # "pending" => futures'[f].value = e /\ ~InRegistry(waiters', f)
    /\ futures'[f].state = "pending" => InRegistry(waiters', f)
    /\ futures[f].check # "None" => f \in evals'

\* The number of listeners registered on the chain of class cls.
ListenersOnChain(cls) == Cardinality({l \in 1..nListeners : OnChain(KeyOf(l), cls)})

C5_PredicateErrorIsolated ==
    [][IsDispatchStep =>
        LET e == lastEvent'
            raising == {f \in Visited(e) :
                          /\ futures[f].state = "pending"
                          /\ futures[f].check \in {"raises", "raisesStop"}}
        IN  raising # {} =>
              /\ dispatchErr' = "none"
              /\ \A f \in raising :
                    /\ futures'[f].state = "exception"
                    /\ ~InRegistry(waiters', f)
              /\ \A f \in Visited(e) : futures[f].state = "pending" => ProcessedNormally(f, e)
              /\ \A f \in 1..Len(futures) :
                    futures'[f].state = "exception" =>
                        futures[f].check \in {"raises", "raisesStop"}
              /\ Len(NewTasks) = ListenersOnChain(e.cls)
      ]_vars

\* C5 witness: the last event gave a waiter of the root bucket the Exception
\* its predicate raised and resolved a waiter of a later bucket, and its
\* listener has its task.
C5_Witness ==
    \E f, g \in 1..Len(futures) :
        /\ futures[f].state = "exception" /\ futures[f].value = lastEvent
        /\ futures[f].key = "Event"
        /\ futures[g].state = "result" /\ futures[g].value = lastEvent
        /\ futures[g].key = "Derived"
        /\ \E i \in 1..Len(tasks) : tasks[i].event = lastEvent.id

\* C6: when a listener's task ends, whether its callback returned or raised,
\* the task ends normally (the exception is caught in call_listener); the
\* step changes no other task, leaves poll_loop and start() where they are and
\* raises nothing into dispatch; no task ever fails, and a scheduled task can
\* always start.
C6_ListenerErrorIsolated ==
    /\ [](\A i \in 1..Len(tasks) :
            /\ tasks[i].state \in {"scheduled", "running", "done"}
            /\ tasks[i].state = "scheduled" => ENABLED TaskStart(i))
    /\ [][\A i \in 1..Len(tasks) :
            (tasks[i].state = "running" /\ tasks'[i].state # "running") =>
                /\ tasks'[i].state = "done"
                /\ \A j \in 1..Len(tasks) : j # i => tasks'[j] = tasks[j]
                /\ Len(tasks') = Len(tasks)
                /\ UNCHANGED <<pc, startErr, connectExc, dispatchErr, ws, gw>>]_vars

\* C6 witness: a listener raised and its exception was caught; the other
\* listener of the same event ran to its end after it, and poll_loop has
\* since dispatched a later frame and awaits the next.
C6_Witness ==
    \E i, j \in 1..Len(tasks) :
        /\ tasks[i].caught /\ tasks[i].state = "done"
        /\ j > i
        /\ tasks[j].event = tasks[i].event
        /\ tasks[j].state = "done" /\ ~tasks[j].caught
        /\ nEvents > tasks[i].event
        /\ pc = "poll"
        /\ startErr = "none"

\* C7: a dispatch call leaves every task it makes scheduled, not started, and
\* makes one for every listener on the event's chain whatever the state of
\* the tasks made before, which it leaves as they are; poll_loop then awaits
\* the next frame, and can receive it whatever the tasks do.
C7_DispatchOnlySchedules ==
    /\ [][IsDispatchStep =>
            /\ SubSeq(tasks', 1, Len(tasks)) = tasks
            /\ Len(NewTasks) = ListenersOnChain(lastEvent'.cls)
            /\ \A i \in 1..Len(NewTasks) : NewTasks[i].state = "scheduled"
            /\ dispatchErr' = "none"
            /\ pc' = "poll"]_vars
    /\ []((pc = "poll" /\ ws.state = "open" /\ nFrames < MaxFrames) =>
            ENABLED (\E t \in FrameTypes, p \in Payloads : RecvFrame(t, p)))

\* C7 witness: a listener's task of an earlier event is still running (it has
\* not finished) while the other listener of that event is done and a later
\* event has been dispatched and has its tasks.
C7_Witness ==
    \E i, j, k \in 1..Len(tasks) :
        /\ tasks[i].state = "running"
        /\ tasks[i].event < nEvents
        /\ tasks[j].event = tasks[i].event /\ j > i /\ tasks[j].state = "done"
        /\ tasks[k].event = nEvents
        /\ pc = "poll"

\* C8: whenever the last connect() call ended with aiohttp.ClientError or
\* asyncio.TimeoutError, start() has not ended with an exception: it is in its
\* next backoff delay, or it has returned because the client is closed; and
\* start() never ends with the backoff's exhaustion.
C8_TransientFailureRetried ==
    /\ connectExc \in {"ClientError", "TimeoutError"} =>
          /\ startErr = "none"
          /\ \/ pc = "delay"
             \/ pc = "returned" /\ gw.closed
    /\ startErr # "BackoffExhausted"

\* C8 witness: every connect() call so far failed with a transient failure,
\* three in a row the last one a timeout, and start() is in its next delay
\* with the backoff never reset.
C8_Witness ==
    /\ nConnects >= 3
    /\ connectExc = "TimeoutError"
    /\ pc = "delay"
    /\ backoff.attempt = nConnects + 1
    /\ nDelays = nConnects + 1
    /\ ~gw.closed

\* C9: when the processing of the last frame raised AuthenticationError,
\* start() has ended with that error; and once start() has ended with an
\* exception it stays ended: no further delay and no further connect() call.
C9_AuthenticationErrorFatal ==
    /\ [](frameExc = "AuthenticationError" =>
            pc = "raised" /\ startErr = "AuthenticationError")
    /\ [][pc = "raised" =>
            UNCHANGED <<pc, startErr, nConnects, nDelays, backoff, lastDelay>>]_vars

\* C9 witness: start() has ended with the AuthenticationError a frame of its
\* second connection raised, and the client is not closed.
C9_Witness ==
    /\ frameExc = "AuthenticationError"
    /\ startErr = "AuthenticationError"
    /\ pc = "raised"
    /\ nConnects = 2
    /\ ~gw.closed

\* C10: when start() goes into a backoff delay after a connect() call, the
\* backoff was reset first exactly if that connection was authenticated: then
\* the delay is the base delay and the attempt count restarts; otherwise the
\* delay is the one of the current attempt count, which goes on growing.
C10_ResetIffAuthenticated ==
    [][(nDelays' = nDelays + 1 /\ nConnects >= 1) =>
            IF sessionAuthed
            THEN lastDelay' = BackoffBase /\ backoff'.attempt = 1
            ELSE /\ lastDelay' = BackoffNextDelay(backoff)
                 /\ backoff'.attempt = backoff.attempt + 1]_vars

\* C10 witness: after a failed first connect() call the second connection
\* was authenticated and then closed by the server with a close code, and
\* start() is in a delay of the base length with the attempt count restarted.
C10_Witness ==
    /\ nConnects = 2
    /\ sessionAuthed
    /\ ws.state = "closed" /\ ws.close_code # "None"
    /\ connectExc = "returned"
    /\ pc = "delay"
    /\ lastDelay = BackoffBase
    /\ backoff.attempt = 1
    /\ nDelays = 3

\* C11: when connect() returns because the poll loop ended, start() returns
\* normally, with no further delay, if the transport has no close code; with
\* a close code it returns if the client is marked closed and otherwise goes
\* into the next backoff delay.  Once returned, start() makes no further
\* connect() call.
C11_CloseCodeDecides ==
    /\ [][(pc = "poll" /\ connectExc' = "returned") =>
            /\ startErr' = "none"
            /\ IF ws'.close_code = "None" \/ gw'.closed
               THEN pc' = "returned" /\ nDelays' = nDelays
               ELSE pc' = "delay" /\ nDelays' = nDelays + 1]_vars
    /\ [][pc = "returned" => UNCHANGED <<pc, nConnects, nDelays, startErr>>]_vars

\* C11 witness: the first connection was closed by the server with a close
\* code and start() connected again; the second poll loop was ended by a
\* local close with no close code, and start() has returned.
C11_Witness ==
    /\ nConnects = 2
    /\ nDelays = 2
    /\ connectExc = "returned"
    /\ ws.close_code = "None"
    /\ pc = "returned"
    /\ startErr = "none"

\* C12: every close() call completes without error, in whatever state it is
\* made; the call that finds the client open leaves it marked closed, not
\* authenticated and with no open transport; a call that finds the client
\* closed changes nothing of the gateway client or its transport.
C12_CloseAnyState ==
    /\ [](closeErr = "none")
    /\ [][(\/ (lastCall' = "close" /\ closePc' = "idle" /\ closePc = "idle" /\ ~gw.closed)
           \/ (closePc = "ws_close" /\ closePc' = "idle"))
          => gw'.closed /\ ~gw'.authenticated /\ ws'.state # "open"]_vars
    /\ [][(closePc = "idle" /\ gw.closed) => UNCHANGED <<gw, ws>>]_vars

\* C13: a start() call made after close() and clear() enters the loop and
\* goes into the delay before connect(); and connect() never fails on cleared
\* state: it reaches ws_connect() with a url and with a session that is not
\* closed.
C13_ReusableAfterClear ==
    /\ [][(lastCall = "clear" /\ lastCall' = "start") =>
            pc' = "delay" /\ startErr' = "none"]_vars
    /\ [](connectExc # "AttributeError")
    /\ [](pc = "ws_connect" => gw.hasUrl /\ gw.hasSession /\ ~rest.sessionClosed)

\* A frame that cannot be decoded or turned into an event: its type is not
\* the one the configured format reads, or no event can be made from it.
Undecodable(frame, format) ==
    \/ format = "json" /\ frame.type # "TEXT"
    \/ format = "msgpack" /\ frame.type # "BINARY"
    \/ frame.payload = "garbage"

\* A step in which poll_loop() receives a data frame.
IsFrameStep == nFrames' = nFrames + 1 /\ lastFrame'.n = nFrames + 1

\* C14: when poll_loop() receives a frame that cannot be decoded, dispatch is
\* not called (no event, no task), poll_loop() goes on awaiting the next
\* frame, start() has no error and the transport stays open; when it receives
\* a frame that can be decoded and whose handling raises nothing, whatever
\* came before, the event is passed to dispatch.
C14_UndecodableFrameSkipped ==
    [][IsFrameStep =>
        IF Undecodable(lastFrame', gw.format)
        THEN /\ nEvents' = nEvents
             /\ tasks' = tasks
             /\ pc' = "poll" /\ startErr' = "none"
             /\ ws' = ws /\ ws.state = "open"
        ELSE lastFrame'.payload # "Error" =>
                /\ nEvents' = nEvents + 1
                /\ pc' = "poll"
                /\ Len(tasks') > Len(tasks)
    ]_vars

\* C14 witness: of two frames received on the open transport, the first was
\* skipped and the second, a valid one, was dispatched to the listeners.
C14_Witness ==
    /\ nFrames = 2
    /\ nEvents = 1
    /\ lastFrame.n = 2 /\ ~Undecodable(lastFrame, gw.format)
    /\ frameExc = "none"
    /\ gw.format = "json"
    /\ Len(tasks) > 0
    /\ pc = "poll" /\ ws.state = "open"

\* C15: on every transport connect() has opened, while it is open, the
\* Authenticate message is the first frame sent: every helper's message comes
\* after it, and poll_loop() receives no frame before it.
C15_AuthenticateFirst ==
    /\ []((gw.hasWs /\ ws.state = "open") => (sent # <<>> /\ sent[1] = "Authenticate"))
    /\ [](sent # <<>> => sent[1] = "Authenticate")
    /\ [][IsFrameStep => (sent # <<>> /\ sent[1] = "Authenticate")]_vars

\* C15 witness: on the transport of a reconnect, a helper called from another
\* task while connect() was still in authenticate() has sent its message
\* after the Authenticate message.
C15_Witness ==
    /\ nConnects = 2
    /\ pc = "authenticate"
    /\ ws.state = "open"
    /\ Len(sent) = 2
    /\ sent[1] = "Authenticate"
    /\ sent[2] = "Ping"
\* C16: AuthenticationData() succeeds exactly when one of token and
\* session_token is given and the other is not; else it fails with
\* ValueError; a credential holder that was built stores the arguments and
\* has exactly one of its two attributes set.
C16_TokenXorSessionToken ==
    ad.err # "unbuilt" =>
        LET given(v) == v # "None"
        IN  /\ ad.err \in {"none", "ValueError"}
            /\ ad.err = "none" <=> (given(ad.args.token) # given(ad.args.session_token))
            /\ ad.err = "none" =>
                    /\ ad.token = ad.args.token
                    /\ ad.session_token = ad.args.session_token
                    /\ given(ad.token) # given(ad.session_token)

\* C16 witness: a client built from a session token alone has connected and
\* written its Authenticate message.
C16_Witness ==
    /\ ad.err = "none"
    /\ ad.args = [token |-> "None", session_token |-> "user"]
    /\ authMsg # Unsent

\* C17: for every credential holder that was built, to_headers is the
\* bot-token header with the bot token if one was set and else the
\* session-token header with the session token, and the Authenticate
\* message carries to_dict's {"token": v} with v the credential that was set.
C17_SerializesTheCredential ==
    ad.err = "none" =>
        LET v == IF ad.token # "None" THEN ad.token ELSE ad.session_token
        IN  /\ headers = IF ad.token # "None" THEN {<<"x-bot-token", ad.token>>}
                                              ELSE {<<"x-session-token", ad.session_token>>}
            /\ authMsg # Unsent => authMsg = {<<"token", v>>}

\* C17 witness: a client built from the empty string as its bot token has
\* written its Authenticate message.
C17_Witness ==
    /\ ad.err = "none"
    /\ ad.token = ""
    /\ authMsg # Unsent
\* C18: when a listener and a pending waiter without predicate are
\* registered under the same type key and an event of that type is dispatched,
\* the waiter is resolved with that event and leaves the registry, exactly one
\* task is made for the listener, with the same event, and in the call's
\* order of steps every set_result of a bucket comes before every create_task
\* of that bucket.
\* The set_result calls of a bucket come before its create_task calls.
WaitersFirst(steps) ==
    \A i, j \in 1..Len(steps) :
        (/\ steps[i].op = "set_result"
         /\ steps[j].op = "create_task"
         /\ steps[i].key = steps[j].key) => i < j

\* Step a comes before step b.
Precedes(steps, a, b) ==
    \E i, j \in 1..Len(steps) : steps[i] = a /\ steps[j] = b /\ i < j

IsAddListenerStep == lastAdd' # lastAdd \/ nListeners' # nListeners

\* The callback can take the event as its one positional argument: its first
\* parameter is positional and no other parameter is required.
OneRequiredPositional(sig) ==
    /\ sig # <<>>
    /\ sig[1].kind \in {"POSITIONAL_ONLY", "POSITIONAL_OR_KEYWORD", "VAR_POSITIONAL"}
    /\ \A i \in 2..Len(sig) : sig[i].default

\* The event type of an add_listener call: the one given, else the type hint
\* of the callback's first parameter.
ResolvedType(sig, event_cls) ==
    IF event_cls # "None" THEN event_cls
    ELSE IF sig = <<>> THEN "nohint" ELSE sig[1].hint

\* C19: add_listener raises TypeError when the callback does not have one
\* required positional parameter, when no event type is given and the first
\* parameter has no type hint, and when the resolved type is not an Event
\* class; a failed call leaves both registries as they were; a successful one
\* appends the callback at the end of the bucket of one key and changes no
\* other bucket.
C19_AddListenerValidates ==
    [][IsAddListenerStep =>
        LET a == lastAdd'
            type == ResolvedType(a.sig, a.event_cls)
        IN  /\ a.err \in {"none", "TypeError"}
            /\ ~OneRequiredPositional(a.sig) => a.err = "TypeError"
            /\ type = "nohint" => a.err = "TypeError"
            /\ type \notin Classes => a.err = "TypeError"
            /\ a.err = "TypeError" => listeners' = listeners /\ waiters' = waiters
            /\ a.err = "none" =>
                  /\ waiters' = waiters
                  /\ \E k \in Classes :
                       /\ DOMAIN listeners' = DOMAIN listeners \cup {k}
                       /\ listeners'[k] = Append(IF k \in DOMAIN listeners THEN listeners[k]
                                                  ELSE <<>>, nListeners')
                       /\ \A c \in DOMAIN listeners \ {k} : listeners'[c] = listeners[c]
      ]_vars

\* C19 witness: a callback whose first parameter has no type hint and whose
\* second, optional parameter is hinted Derived was passed without an event
\* type, and the call succeeded.
C19_Witness ==
    /\ lastAdd.err = "none"
    /\ lastAdd.event_cls = "None"
    /\ Len(lastAdd.sig) = 2
    /\ lastAdd.sig[1].hint = "nohint"
    /\ "Derived" \in DOMAIN listeners
\* A step that is one add_waiter call.
IsAddWaiterStep == Len(futures') = Len(futures) + 1

\* The registry reg holds no waiter whose future, in fs, has a result or an
\* exception, and no empty bucket.
RegistryClean(reg, fs) ==
    \A k \in DOMAIN reg :
        /\ reg[k] # <<>>
        /\ \A i \in 1..Len(reg[k]) : fs[reg[k][i].fut].state \notin {"result", "exception"}

\* C20: after every add_waiter call and every dispatch call that returned,
\* the waiter registry holds no waiter whose future has a result or an
\* exception and no empty bucket; a waiter that a dispatch call resolves or
\* errors has left the registry when the call returns.
C20_NoResolvedEntry ==
    [][(IsAddWaiterStep \/ (IsDispatchStep /\ dispatchErr' = "none")) =>
        /\ RegistryClean(waiters', futures')
        /\ \A f \in 1..Len(futures) :
             (futures[f].state = "pending" /\ futures'[f].state # "pending") =>
                 ~InRegistry(waiters', f)
      ]_vars

\* C20 witness: the second dispatch call has returned and the registry still
\* holds a waiter whose future has a result.
C20_Witness ==
    /\ nEvents = 2
    /\ dispatchErr = "none"
    /\ \E f \in 1..Len(futures) : InRegistry(waiters, f) /\ futures[f].state = "result"
\* A step in which connect() opens a transport: ws_connect() returns one.
IsOpenStep == pc = "ws_connect" /\ pc' = "authenticate"

\* The connection behind transport w is up: open, or closing while close()
\* awaits the end of the closing handshake.
ConnectionUp(w) == w.state \in {"open", "closing"}

\* C21: during a run of start(), connect() opens a new transport only when
\* the connection of the previous one is no longer up, and start() is inside
\* connect() whenever a connection is up and close() is not ending it: at
\* most one connection is up at a time.
C21_OneTransportAtATime ==
    /\ [][IsOpenStep => (~ConnectionUp(ws) /\ ws'.state = "open")]_vars
    /\ [][(ws'.state = "open" /\ ws.state # "open") => IsOpenStep]_vars
    /\ [](pc \in {"delay", "fetch", "ws_connect"} => ~ConnectionUp(ws))

\* C21 witness: the second connect() of a start() call polls on the
\* transport it opened, with no close() call made.
C21_Witness ==
    /\ nConnects = 2
    /\ pc = "poll"
    /\ ws.state = "open"
    /\ lastCall = "start"
\* A step in which poll_loop() receives an ERROR frame.
IsErrorFrameStep == nFrames' = nFrames + 1 /\ ~IsFrameStep

\* C22: an ERROR frame received in poll_loop() is raised out of connect()
\* and start() treats it as a failure to retry: start() does not end with the
\* error, it goes on to the next backoff delay (or returns, the client being
\* closed).
C22_ErrorFrameRetried ==
    [][IsErrorFrameStep =>
        /\ connectExc' \in Excs
        /\ startErr' = "none"
        /\ pc' # "raised"
        /\ pc' = IF gw.closed THEN "returned" ELSE "delay"
      ]_vars

\* C22 witness: the first frame was an ERROR frame whose data is no
\* ClientError and no TimeoutError, and start() has ended with it.
C22_Witness ==
    /\ nFrames = 1
    /\ lastFrame.n = 0
    /\ connectExc = "OtherError"
    /\ pc = "raised"
    /\ startErr = "OtherError"
    /\ ws.state = "closed"
\* C23: poll_loop() decodes, handles and dispatches a frame within the step
\* that receives it, before it receives the next: the n-th dispatch call is
\* made for the n-th frame that was decoded and handled, with the event made
\* from that frame, it resolves the waiters and makes the listeners' tasks of
\* that event, no dispatch call is made apart from a frame, and the tasks
\* stand in the order of their events.
C23_ArrivalOrder ==
    /\ [][IsFrameStep =>
            IF frameExc' = "none"
            THEN /\ IsDispatchStep
                 /\ dispatchErr' = "none"
                 /\ lastEvent' = [id |-> nEvents + 1,
                                  cls |-> EventClassOf(lastFrame'.payload), tag |-> "A"]
                 /\ \A f \in Visited(lastEvent') :
                      futures[f].state = "pending" =>
                        futures'[f].state = "result" /\ futures'[f].value = lastEvent'
                 /\ Len(NewTasks) = ListenersOnChain(lastEvent'.cls)
                 /\ \A t \in 1..Len(NewTasks) : NewTasks[t].event = nEvents + 1
            ELSE /\ ~IsDispatchStep
                 /\ futures' = futures
                 /\ Len(tasks') = Len(tasks)
       ]_vars
    /\ [][IsDispatchStep => IsFrameStep]_vars
    /\ [](\A i, j \in 1..Len(tasks) : i < j => tasks[i].event <= tasks[j].event)
    /\ [](nEvents <= nFrames /\ lastEvent.id <= lastFrame.n)

\* C23 witness: two frames were decoded and dispatched, each resolved a
\* waiter with its own event, and the tasks of the first frame's event stand
\* before those of the second's.
C23_Witness ==
    /\ nFrames = 2
    /\ nEvents = 2
    /\ \E f, g \in 1..Len(futures) :
         /\ futures[f].state = "result" /\ futures[f].value.id = 1
         /\ futures[g].state = "result" /\ futures[g].value.id = 2
    /\ \E i, j \in 1..Len(tasks) : i < j /\ tasks[i].event = 1 /\ tasks[j].event = 2
\* GatewayClient.close() was called, and ended or is ending without error,
\* while start() runs.
ClosedWhileRunning ==
    /\ lastCall = "close"
    /\ closeErr = "none"
    /\ pc \notin {"idle", "returned", "raised"}

\* C24: once close() has been called on a gateway client whose start() is
\* running, connect() opens no transport any more and start() returns in the
\* end (the bound on connect() calls aside).
C24_CloseStopsStart ==
    /\ [][ClosedWhileRunning => ~IsOpenStep]_vars
    /\ (ClosedWhileRunning ~> (pc = "returned" \/ nConnects = MaxConnects))

\* C24 witness: close() was called after the server had closed the first
\* transport, and start() polls on a transport it has opened since, the
\* client marked closed.
C24_Witness ==
    /\ lastCall = "close"
    /\ closeErr = "none"
    /\ gw.closed
    /\ nConnects = 2
    /\ pc = "poll"
    /\ ws.state = "open"
\* A dispatch step in which a predicate that calls add_waiter was called.
IsReentrantStep ==
    IsDispatchStep /\ \E f \in evals' : futures'[f].check \in ReentrantChecks

\* C25: a dispatch call during which a predicate calls add_waiter returns
\* without error; the waiters that are pending when it returns, the ones
\* registered meanwhile included, are in the registry; a future that was done
\* is left as it was and one that the call resolves holds its event; and the
\* registry holds no resolved entry and no empty bucket.
C25_ReentrantRegistration ==
    [][IsReentrantStep =>
        /\ dispatchErr' = "none"
        /\ Len(futures') >= Len(futures)
        /\ \A f \in 1..Len(futures') :
             futures'[f].state = "pending" => InRegistry(waiters', f)
        /\ \A f \in 1..Len(futures) :
             /\ futures[f].state # "pending" => futures'[f] = futures[f]
             /\ (futures[f].state = "pending" /\ futures'[f].state # "pending") =>
                    futures'[f].value = lastEvent'
        /\ RegistryClean(waiters', futures')
      ]_vars

\* C25 witness: a dispatch call has visited a waiter whose predicate
\* registers a waiter with the same predicate in the same bucket, and does
\* not return.
C25_Witness ==
    /\ dispatchErr = "NeverReturns"
    /\ \E f \in evals : futures[f].check = "addsSelf" /\ futures[f].state = "pending"
\* C26: after a close() call that ended without error, clear() ends without
\* error, and a second clear() call right after it ends without error too
\* and leaves the gateway client and the REST client as the first left them.
C26_ClearIdempotent ==
    /\ [][(lastCall = "close" /\ closeErr = "none" /\ lastCall' = "clear") =>
             clearErr' = "none"]_vars
    /\ [][(lastCall = "clear" /\ clearErr = "none" /\ closeErr = "none"
            /\ lastCall' = "clear") =>
             (clearErr' = "none" /\ gw' = gw /\ rest' = rest)]_vars

\* C26 witness: after a successful prepare(), a close() and a clear() that
\* ended without error, a second clear() has raised AttributeError.
C26_Witness ==
    /\ lastCall = "clear"
    /\ closeErr = "none"
    /\ clearErr = "AttributeError"
    /\ rest.prepared /\ ~rest.hasSession /\ ~rest.hasConfig

====
